---- MODULE Spec2Model ----
(***************************************************************************)
(* Model of the Kafka consumers of patron: the group consumer              *)
(* (async/kafka/group), the simple consumer (async/kafka/simple) and the   *)
(* factories that create them.                                             *)
(***************************************************************************)
EXTENDS Integers, Sequences, FiniteSets

\* ------------------------------------------------------------------ bounds
NumPartitions == 2
MaxRecords == 2
MaxBuffer == 1
MaxClose == 2
MaxInvocations == 2
MaxOptions == 2
MaxCalls == 3

Partitions == 1..NumPartitions

\* ------------------------------------------------------------------ errors
\* An error value is <<kind, partition, offset>>; NoErr is Go's nil error.
NoErr == <<"nil", 0, 0>>
ErrClosedConsumerGroup == <<"closed", 0, 0>>
ErrSession == <<"session", 0, 0>>
ErrFatal == <<"fatal", 0, 0>>
ErrReader(p) == <<"reader", p, 0>>
ErrDecode(p, o) == <<"decode", p, o>>

VARIABLES
    mode,        \* "group" | "simple" | "factory" | "builder": which package
                 \* is exercised
    buffer,      \* consumerCnf.Buffer, capacity of chMsg and chErr
    chClosed,    \* close() has been called on chMsg and chErr
    gauge,       \* the offset-difference gauge of each partition
    cnl,         \* c.cnl /= nil
    ctxDone,     \* the derived context has been cancelled
    cg,          \* c.cg: "nil" | "open" | "closed"
    ms,          \* c.ms: "nil" | "open" | "closed"
    consumeRet,  \* what Consume returned: [called, queues, err]
    chMsg,       \* buffered content of the message channel
    chErr,       \* buffered content of the error channel
    errSent,     \* number of times each error value was sent on chErr
    receiving,   \* the caller is still receiving from the channels
    closeCalls,  \* number of Close calls made
    closeErr,    \* error returned by the last Close (TRUE: non-nil)
    panicked,    \* a nil dereference has crashed the process
    \* group consumer
    wd,          \* watchdog goroutine: "none" | "select" | "send" | "done"
    wdErr,       \* error the watchdog is about to send
    sl,          \* session loop goroutine: "none" | "invoke" | "session" | "send"
    slErr,       \* error the session loop is about to send
    invocations, \* number of cg.Consume invocations made
    closedSeen,  \* an invocation returned ErrClosedConsumerGroup
    sess,        \* broker session: "none" | "active" | "revoked"
    assigned,    \* partitions claimed in the current session
    h,           \* ConsumeClaim per partition: "idle" | "range" | "send" | "ret"
    hOff,        \* offset of the message a handler is about to send
    hErr,        \* error a handler returned
    next,        \* next offset the claim / partition reader yields
    claimStart,  \* first offset of the current claim
    claimLog,    \* offsets sent on chMsg for the current claim, in send order
    \* simple consumer
    pump,        \* partition pump: "none" | "select" | "send" | "done"
    reader,      \* partition consumer: "nil" | "open" | "closed"
    pos,         \* next offset a partition consumer yields
    sentMsg,     \* number of times each record was sent on chMsg
    emit,        \* decode-and-emit goroutine per record:
                 \* "none" | "sendMsg" | "sendErr" | "done"
    \* factory
    fin,         \* arguments of New
    factory,     \* result of New: [called, f, err]
    created,     \* result of Create: [called, c, err, applied]
    \* service builder
    b,           \* the Builder: [made, errors, name, routes, middlewares,
                 \* healthCheck, components, sighupHandler]
    calls,       \* the builder calls made so far, <<method, input missing>>
    run          \* result of Run: [called, err, created, ran]

ctlVars == <<mode, buffer, chClosed, gauge, cnl, consumeRet, closeCalls, closeErr,
             panicked, receiving>>
errVars == <<chErr, errSent>>
commonVars == <<ctlVars, ctxDone, cg, ms, chMsg, errVars>>
groupVars == <<wd, wdErr, sl, slErr, invocations, closedSeen, sess, assigned, h,
               hOff, hErr, next, claimStart, claimLog>>
simpleVars == <<pump, reader, pos, sentMsg, emit>>
factoryVars == <<fin, factory, created>>
builderVars == <<b, calls, run>>
vars == <<commonVars, groupVars, simpleVars, factoryVars, builderVars>>

\* ---------------------------------------------------------------- channels
\* A send on a channel of capacity 0 is a hand-off to a receiving caller; on
\* a buffered channel it needs a free slot.
\* A channel that takes one element more than the configured buffer.
CanSendOneMore(q) == IF buffer = 0 THEN receiving ELSE Len(q) <= buffer

CanSend(q) == IF buffer = 0 THEN receiving ELSE Len(q) < buffer

Sent(q, x) == IF buffer = 0 THEN q ELSE Append(q, x)

Records == 0..(MaxRecords - 1)

\* claim.HighWaterMarkOffset() / consumer.HighWaterMarkOffset(): the offset
\* after the last record of the partition, which holds the records Records.
HighWaterMarkOffset(p) == MaxRecords

\* kafka.TopicPartitionOffsetDiffGaugeSet(group, topic, partition, high,
\* offset): the value the gauge of the partition is set to.
TopicPartitionOffsetDiffGaugeSet(high, offset) == high - offset
EmitKeys == Partitions \X Records

ErrValues ==
    {ErrClosedConsumerGroup, ErrSession, ErrFatal}
        \cup {ErrReader(p) : p \in Partitions}
        \cup {ErrDecode(p, o) : p \in Partitions, o \in Records}

NotCalled == [called |-> FALSE, queues |-> FALSE, err |-> FALSE]


InitCommon ==
    /\ chClosed = FALSE
    /\ gauge = [p \in Partitions |-> 0]
    /\ cnl = FALSE
    /\ ctxDone = FALSE
    /\ cg = "nil"
    /\ ms = "nil"
    /\ consumeRet = NotCalled
    /\ chMsg = <<>>
    /\ chErr = <<>>
    /\ errSent = [e \in ErrValues |-> 0]
    /\ receiving = TRUE
    /\ closeCalls = 0
    /\ closeErr = FALSE
    /\ panicked = FALSE

InitGroupVars ==
    /\ wd = "none"
    /\ wdErr = NoErr
    /\ sl = "none"
    /\ slErr = NoErr
    /\ invocations = 0
    /\ closedSeen = FALSE
    /\ sess = "none"
    /\ assigned = {}
    /\ h = [p \in Partitions |-> "idle"]
    /\ hOff = [p \in Partitions |-> 0]
    /\ hErr = [p \in Partitions |-> NoErr]
    /\ next = [p \in Partitions |-> 0]
    /\ claimStart = [p \in Partitions |-> 0]
    /\ claimLog = [p \in Partitions |-> <<>>]

InitSimpleVars ==
    /\ pump = [p \in Partitions |-> "none"]
    /\ reader = [p \in Partitions |-> "nil"]
    /\ pos = [p \in Partitions |-> 0]
    /\ sentMsg = [k \in EmitKeys |-> 0]
    /\ emit = [k \in EmitKeys |-> "none"]

\* A nil *Factory, and the state before New is called.
NilFactory == [nil |-> TRUE, name |-> "", group |-> "", topic |-> "",
               brokers |-> <<>>, oo |-> <<>>]
NoFactory == [called |-> FALSE, f |-> NilFactory, err |-> ""]
NoCreate == [called |-> FALSE, c |-> FALSE, err |-> NoErr, applied |-> <<>>]

\* The packages: the group consumer (group.go), its later revision
\* (part_000) and the simple consumer (part_001).
Packages == {"group", "group2", "simple"}
Names == {"", "n"}
BrokerLists == {<<>>, <<"b">>}
\* An OptionFunc: fn identifies the function, fails says whether it returns
\* an error when applied.
OptionFuncs == [fn : 1..2, fails : BOOLEAN]
OptionLists == UNION {[1..n -> OptionFuncs] : n \in 0..MaxOptions}

InitFactoryVars ==
    /\ fin = [pkg |-> "group", name |-> "", group |-> "", topic |-> "",
              brokers |-> <<>>, oo |-> <<>>]
    /\ factory = NoFactory
    /\ created = NoCreate

\* The zero Builder, and the state before Run is called.
ZeroBuilder == [made |-> FALSE, errors |-> <<>>, name |-> "", routes |-> <<>>,
                middlewares |-> <<>>, healthCheck |-> "nil", components |-> <<>>,
                sighupHandler |-> "nil"]
NoRun == [called |-> FALSE, err |-> FALSE, created |-> FALSE, ran |-> FALSE]

InitBuilderVars ==
    /\ b = ZeroBuilder
    /\ calls = <<>>
    /\ run = NoRun

\* ----------------------------------------------------------------- factory
\* A New that does not look at the broker list.
GroupNewNoBrokerCheck(name, group, topic, brokers, oo) ==
    IF name = "" THEN [called |-> TRUE, f |-> NilFactory, err |-> "name is required"]
    ELSE IF group = "" THEN [called |-> TRUE, f |-> NilFactory, err |-> "group is required"]
    ELSE IF topic = "" THEN [called |-> TRUE, f |-> NilFactory, err |-> "topic is required"]
    ELSE [called |-> TRUE,
          f |-> [nil |-> FALSE, name |-> name, group |-> group, topic |-> topic,
                 brokers |-> brokers, oo |-> oo],
          err |-> ""]

\* group.New (both revisions).
GroupNew(name, group, topic, brokers, oo) ==
    IF name = "" THEN [called |-> TRUE, f |-> NilFactory, err |-> "name is required"]
    ELSE IF group = "" THEN [called |-> TRUE, f |-> NilFactory, err |-> "group is required"]
    ELSE IF Len(brokers) = 0
        THEN [called |-> TRUE, f |-> NilFactory, err |-> "provide at least one broker"]
    ELSE IF topic = "" THEN [called |-> TRUE, f |-> NilFactory, err |-> "topic is required"]
    ELSE [called |-> TRUE,
          f |-> [nil |-> FALSE, name |-> name, group |-> group, topic |-> topic,
                 brokers |-> brokers, oo |-> oo],
          err |-> ""]

\* simple.New.
SimpleNew(name, topic, brokers, oo) ==
    IF name = "" THEN [called |-> TRUE, f |-> NilFactory, err |-> "name is required"]
    ELSE IF Len(brokers) = 0
        THEN [called |-> TRUE, f |-> NilFactory, err |-> "provide at least one broker"]
    ELSE IF topic = "" THEN [called |-> TRUE, f |-> NilFactory, err |-> "topic is required"]
    ELSE [called |-> TRUE,
          f |-> [nil |-> FALSE, name |-> name, group |-> "", topic |-> topic,
                 brokers |-> brokers, oo |-> oo],
          err |-> ""]

\* New is called with the arguments fin.
New ==
    /\ ~factory.called
    /\ factory' = IF fin.pkg = "simple"
                    THEN SimpleNew(fin.name, fin.topic, fin.brokers, fin.oo)
                    ELSE GroupNew(fin.name, fin.group, fin.topic, fin.brokers, fin.oo)
    /\ UNCHANGED <<commonVars, groupVars, simpleVars, fin, created, builderVars>>

\* The error Create returns when option o fails, <<kind, wrapped, fn>>:
\* group.go wraps it in a message that names the function, part_000 wraps
\* it in a fixed message, the simple factory returns it as it is.
OptionError(pkg, o) ==
    IF pkg = "group" THEN <<"option", 1, o.fn>>
    ELSE IF pkg = "group2" THEN <<"option", 1, 0>>
    ELSE <<"option", 0, 0>>

\* Factory.Create, the loop for _, o := range f.oo from index i on; applied
\* lists the indexes of the options called so far.
RECURSIVE ApplyOptions(_, _, _, _)
ApplyOptions(pkg, oo, i, applied) ==
    IF i > Len(oo)
      THEN [called |-> TRUE, c |-> TRUE, err |-> NoErr, applied |-> applied]
      ELSE IF oo[i].fails
        THEN [called |-> TRUE, c |-> FALSE, err |-> OptionError(pkg, oo[i]),
              applied |-> Append(applied, i)]
        ELSE ApplyOptions(pkg, oo, i + 1, Append(applied, i))

\* Factory.Create: cfgOk is the outcome of kafka.SaramaConfig(f.name).
FactoryCreate(pkg, f, cfgOk) ==
    IF ~cfgOk
      THEN [called |-> TRUE, c |-> FALSE, err |-> <<"config", 0, 0>>, applied |-> <<>>]
      ELSE ApplyOptions(pkg, f.oo, 1, <<>>)

\* Create is called on the factory New returned.
Create(cfgOk) ==
    /\ factory.called
    /\ ~factory.f.nil
    /\ ~created.called
    /\ created' = FactoryCreate(fin.pkg, factory.f, cfgOk)
    /\ UNCHANGED <<commonVars, groupVars, simpleVars, fin, factory, builderVars>>

\* ------------------------------------------------------------ group: Consume
\* A Consume that starts its goroutines before it looks at the error of
\* sarama.NewConsumerGroup.
GroupConsumeEarlyStart(newOk) ==
    /\ mode = "group"
    /\ ~panicked
    /\ ~consumeRet.called
    /\ cnl' = TRUE
    /\ wd' = "select"
    /\ sl' = "invoke"
    /\ IF newOk
         THEN /\ cg' = "open"
              /\ consumeRet' = [called |-> TRUE, queues |-> TRUE, err |-> FALSE]
         ELSE /\ UNCHANGED cg
              /\ consumeRet' = [called |-> TRUE, queues |-> FALSE, err |-> TRUE]
    /\ UNCHANGED <<mode, buffer, chClosed, gauge, closeCalls, closeErr, panicked, receiving>>
    /\ UNCHANGED <<ctxDone, ms, chMsg, errVars>>
    /\ UNCHANGED <<wdErr, slErr, invocations, closedSeen, sess, assigned, h, hOff, hErr,
                   next, claimStart, claimLog>>
    /\ UNCHANGED <<simpleVars, factoryVars, builderVars>>

\* consumer.Consume / consumeWithGroup: newOk is the outcome of
\* sarama.NewConsumerGroup.
GroupConsume(newOk) ==
    /\ mode = "group"
    /\ ~panicked
    /\ ~consumeRet.called
    /\ cnl' = TRUE
    /\ IF newOk
         THEN /\ cg' = "open"
              /\ wd' = "select"
              /\ sl' = "invoke"
              /\ consumeRet' = [called |-> TRUE, queues |-> TRUE, err |-> FALSE]
         ELSE /\ UNCHANGED <<cg, wd, sl>>
              /\ consumeRet' = [called |-> TRUE, queues |-> FALSE, err |-> TRUE]
    /\ UNCHANGED <<mode, buffer, chClosed, gauge, closeCalls, closeErr, panicked, receiving>>
    /\ UNCHANGED <<ctxDone, ms, chMsg, errVars>>
    /\ UNCHANGED <<wdErr, slErr, invocations, closedSeen, sess, assigned, h, hOff, hErr,
                   next, claimStart, claimLog>>
    /\ UNCHANGED <<simpleVars, factoryVars, builderVars>>

\* consumer.Close of the group consumer: cancels, then calls c.cg.Close() on
\* whatever c.cg holds; closeFails is the outcome of the first sarama Close.
GroupClose(closeFails) ==
    /\ mode = "group"
    /\ ~panicked
    /\ closeCalls < MaxClose
    /\ closeCalls' = closeCalls + 1
    /\ ctxDone' = (ctxDone \/ cnl)
    /\ IF cg = "nil"
         THEN /\ panicked' = TRUE
              /\ UNCHANGED <<cg, closeErr>>
         ELSE /\ cg' = "closed"
              /\ closeErr' = (cg = "open" /\ closeFails)
              /\ UNCHANGED panicked
    /\ UNCHANGED <<mode, buffer, chClosed, gauge, cnl, consumeRet, receiving>>
    /\ UNCHANGED <<ms, chMsg, errVars>>
    /\ UNCHANGED <<groupVars, simpleVars, factoryVars, builderVars>>

\* closeConsumer(cns): closes a non-nil consumer group.
closeConsumer(cns) == IF cns = "nil" THEN cns ELSE "closed"

\* Watchdog goroutine, case <-ctx.Done().
WatchdogCancel ==
    /\ ~panicked
    /\ wd = "select"
    /\ ctxDone
    /\ cg' = closeConsumer(cg)
    /\ wd' = "done"
    /\ UNCHANGED <<ctlVars, ctxDone, ms, chMsg, errVars>>
    /\ UNCHANGED <<wdErr, sl, slErr, invocations, closedSeen, sess, assigned, h,
                   hOff, hErr, next, claimStart, claimLog>>
    /\ UNCHANGED <<simpleVars, factoryVars, builderVars>>

\* Watchdog goroutine, case consumerError := <-consumer.Errors(): the client
\* is closed first, the send on chErr follows.
WatchdogError ==
    /\ ~panicked
    /\ wd = "select"
    /\ cg' = closeConsumer(cg)
    /\ wdErr' = ErrFatal
    /\ wd' = "send"
    /\ UNCHANGED <<ctlVars, ctxDone, ms, chMsg, errVars>>
    /\ UNCHANGED <<sl, slErr, invocations, closedSeen, sess, assigned, h,
                   hOff, hErr, next, claimStart, claimLog>>
    /\ UNCHANGED <<simpleVars, factoryVars, builderVars>>

\* A watchdog that lacks the return after chErr <- consumerError and selects
\* again.
WatchdogSendNoReturn ==
    /\ ~panicked
    /\ wd = "send"
    /\ CanSend(chErr)
    /\ chErr' = Sent(chErr, wdErr)
    /\ errSent' = [errSent EXCEPT ![wdErr] = @ + 1]
    /\ wd' = "select"
    /\ UNCHANGED <<ctlVars, ctxDone, cg, ms, chMsg>>
    /\ UNCHANGED <<wdErr, sl, slErr, invocations, closedSeen, sess, assigned, h,
                   hOff, hErr, next, claimStart, claimLog>>
    /\ UNCHANGED <<simpleVars, factoryVars, builderVars>>

\* Watchdog goroutine, chErr <- consumerError; return.
WatchdogSend ==
    /\ ~panicked
    /\ wd = "send"
    /\ CanSend(chErr)
    /\ chErr' = Sent(chErr, wdErr)
    /\ errSent' = [errSent EXCEPT ![wdErr] = @ + 1]
    /\ wd' = "done"
    /\ UNCHANGED <<ctlVars, ctxDone, cg, ms, chMsg>>
    /\ UNCHANGED <<wdErr, sl, slErr, invocations, closedSeen, sess, assigned, h,
                   hOff, hErr, next, claimStart, claimLog>>
    /\ UNCHANGED <<simpleVars, factoryVars, builderVars>>

\* Session loop, err := consumer.Consume(ctx, topics, hnd) entered: on a
\* closed client it returns ErrClosedConsumerGroup at once; joining may fail
\* (joinOk false); otherwise a session starts with the claims in asg, each
\* claim starting at the offset start[p] the broker holds for it.
SessionInvoke(joinOk, asg, start) ==
    /\ ~panicked
    /\ sl = "invoke"
    /\ invocations < MaxInvocations
    /\ invocations' = invocations + 1
    /\ IF cg = "closed"
         THEN /\ sl' = "send"
              /\ slErr' = ErrClosedConsumerGroup
              /\ closedSeen' = TRUE
              /\ UNCHANGED <<sess, assigned, h, next, claimStart, claimLog>>
         ELSE IF ~joinOk
         THEN /\ sl' = "send"
              /\ slErr' = ErrSession
              /\ UNCHANGED <<closedSeen, sess, assigned, h, next, claimStart, claimLog>>
         ELSE /\ sl' = "session"
              /\ sess' = "active"
              /\ assigned' = asg
              /\ h' = [p \in Partitions |-> IF p \in asg THEN "range" ELSE "idle"]
              /\ next' = [p \in Partitions |-> IF p \in asg THEN start[p] ELSE 0]
              /\ claimStart' = [p \in Partitions |-> IF p \in asg THEN start[p] ELSE 0]
              /\ UNCHANGED claimLog
              /\ UNCHANGED <<slErr, closedSeen>>
    /\ UNCHANGED <<ctlVars, ctxDone, cg, ms, chMsg, errVars>>
    /\ UNCHANGED <<wd, wdErr, hOff, hErr>>
    /\ UNCHANGED <<simpleVars, factoryVars, builderVars>>

\* The broker ends the session: rebalance, cancelled context, closed client
\* or a claim handler that returned.
SessionRevoke ==
    /\ ~panicked
    /\ sess = "active"
    /\ sess' = "revoked"
    /\ UNCHANGED <<commonVars, simpleVars, factoryVars, builderVars>>
    /\ UNCHANGED <<wd, wdErr, sl, slErr, invocations, closedSeen, assigned, h, hOff, hErr,
                   next, claimStart, claimLog>>

\* ConsumeClaim that takes the next record of the claim without waiting for
\* the previous message to be accepted by the channel.
ConsumeClaimTakeAsync(p, decodeOk) ==
    /\ ~panicked
    /\ h[p] \in {"range", "send"}
    /\ sess # "none"
    /\ next[p] < MaxRecords
    /\ gauge' = [gauge EXCEPT ![p] =
                    TopicPartitionOffsetDiffGaugeSet(HighWaterMarkOffset(p), next[p])]
    /\ next' = [next EXCEPT ![p] = @ + 1]
    /\ IF decodeOk
         THEN /\ h' = [h EXCEPT ![p] = "send"]
              /\ hOff' = [hOff EXCEPT ![p] = next[p]]
              /\ UNCHANGED hErr
         ELSE /\ h' = [h EXCEPT ![p] = "ret"]
              /\ hErr' = [hErr EXCEPT ![p] = ErrDecode(p, next[p])]
              /\ UNCHANGED hOff
    /\ UNCHANGED <<mode, buffer, chClosed, cnl, consumeRet, closeCalls, closeErr,
                   panicked, receiving>>
    /\ UNCHANGED <<ctxDone, cg, ms, chMsg, errVars>>
    /\ UNCHANGED <<wd, wdErr, sl, slErr, invocations, closedSeen, sess, assigned,
                   claimStart, claimLog>>
    /\ UNCHANGED <<simpleVars, factoryVars, builderVars>>

\* ConsumeClaim that notes a failed decode and goes on with the next record
\* of the claim.
ConsumeClaimTakeSkipBad(p, decodeOk) ==
    /\ ~panicked
    /\ h[p] = "range"
    /\ sess # "none"
    /\ next[p] < MaxRecords
    /\ gauge' = [gauge EXCEPT ![p] =
                    TopicPartitionOffsetDiffGaugeSet(HighWaterMarkOffset(p), next[p])]
    /\ next' = [next EXCEPT ![p] = @ + 1]
    /\ IF decodeOk
         THEN /\ h' = [h EXCEPT ![p] = "send"]
              /\ hOff' = [hOff EXCEPT ![p] = next[p]]
              /\ UNCHANGED hErr
         ELSE /\ hErr' = [hErr EXCEPT ![p] = ErrDecode(p, next[p])]
              /\ UNCHANGED <<h, hOff>>
    /\ UNCHANGED <<mode, buffer, chClosed, cnl, consumeRet, closeCalls, closeErr,
                   panicked, receiving>>
    /\ UNCHANGED <<ctxDone, cg, ms, chMsg, errVars>>
    /\ UNCHANGED <<wd, wdErr, sl, slErr, invocations, closedSeen, sess, assigned,
                   claimStart, claimLog>>
    /\ UNCHANGED <<simpleVars, factoryVars, builderVars>>

\* handler.ConsumeClaim, one iteration of for msg := range claim.Messages()
\* up to the send: the gauge is set from the claim's high-water mark and the
\* record's offset, then ClaimMessage decodes the record (decodeOk); a failed
\* decode returns the error, a successful one leaves the message to send.
ConsumeClaimTake(p, decodeOk) ==
    /\ ~panicked
    /\ h[p] = "range"
    /\ sess # "none"
    /\ next[p] < MaxRecords
    /\ gauge' = [gauge EXCEPT ![p] =
                    TopicPartitionOffsetDiffGaugeSet(HighWaterMarkOffset(p), next[p])]
    /\ next' = [next EXCEPT ![p] = @ + 1]
    /\ IF decodeOk
         THEN /\ h' = [h EXCEPT ![p] = "send"]
              /\ hOff' = [hOff EXCEPT ![p] = next[p]]
              /\ UNCHANGED hErr
         ELSE /\ h' = [h EXCEPT ![p] = "ret"]
              /\ hErr' = [hErr EXCEPT ![p] = ErrDecode(p, next[p])]
              /\ UNCHANGED hOff
    /\ UNCHANGED <<mode, buffer, chClosed, cnl, consumeRet, closeCalls, closeErr,
                   panicked, receiving>>
    /\ UNCHANGED <<ctxDone, cg, ms, chMsg, errVars>>
    /\ UNCHANGED <<wd, wdErr, sl, slErr, invocations, closedSeen, sess, assigned,
                   claimStart, claimLog>>
    /\ UNCHANGED <<simpleVars, factoryVars, builderVars>>

\* handler.ConsumeClaim, h.messages <- m.
ConsumeClaimSend(p) ==
    /\ ~panicked
    /\ h[p] = "send"
    /\ CanSend(chMsg)
    /\ chMsg' = Sent(chMsg, <<p, hOff[p]>>)
    /\ claimLog' = [claimLog EXCEPT ![p] = Append(@, hOff[p])]
    /\ h' = [h EXCEPT ![p] = "range"]
    /\ hOff' = [hOff EXCEPT ![p] = 0]
    /\ UNCHANGED <<ctlVars, ctxDone, cg, ms, errVars>>
    /\ UNCHANGED <<wd, wdErr, sl, slErr, invocations, closedSeen, sess, assigned,
                   hErr, next, claimStart>>
    /\ UNCHANGED <<simpleVars, factoryVars, builderVars>>

\* handler.ConsumeClaim, the claim's channel is closed: the range ends and
\* the handler returns nil.
ConsumeClaimEnd(p) ==
    /\ ~panicked
    /\ h[p] = "range"
    /\ sess = "revoked"
    /\ h' = [h EXCEPT ![p] = "ret"]
    /\ UNCHANGED <<commonVars, simpleVars, factoryVars, builderVars>>
    /\ UNCHANGED <<wd, wdErr, sl, slErr, invocations, closedSeen, sess, assigned,
                   hOff, hErr, next, claimStart, claimLog>>

\* A session loop that goes round without sending the error it got.
SessionReturnDropErr(e) ==
    /\ ~panicked
    /\ sl = "session"
    /\ sess = "revoked"
    /\ \A p \in assigned : h[p] = "ret"
    /\ sess' = "none"
    /\ assigned' = {}
    /\ h' = [p \in Partitions |-> "idle"]
    /\ next' = [p \in Partitions |-> 0]
    /\ claimStart' = [p \in Partitions |-> 0]
    /\ claimLog' = [p \in Partitions |-> <<>>]
    /\ hOff' = [p \in Partitions |-> 0]
    /\ hErr' = [p \in Partitions |-> NoErr]
    /\ slErr' = e
    /\ sl' = "invoke"
    /\ UNCHANGED <<commonVars, simpleVars, factoryVars, builderVars>>
    /\ UNCHANGED <<wd, wdErr, invocations, closedSeen>>

\* Session loop, consumer.Consume returns e (nil, a broker error or the error
\* of a claim handler) once the session is over and every claim handler has
\* returned; if err != nil the loop goes on to send.
SessionReturn(e) ==
    /\ ~panicked
    /\ sl = "session"
    /\ sess = "revoked"
    /\ \A p \in assigned : h[p] = "ret"
    /\ sess' = "none"
    /\ assigned' = {}
    /\ h' = [p \in Partitions |-> "idle"]
    /\ next' = [p \in Partitions |-> 0]
    /\ claimStart' = [p \in Partitions |-> 0]
    /\ claimLog' = [p \in Partitions |-> <<>>]
    /\ hOff' = [p \in Partitions |-> 0]
    /\ hErr' = [p \in Partitions |-> NoErr]
    /\ slErr' = e
    /\ sl' = IF e # NoErr THEN "send" ELSE "invoke"
    /\ UNCHANGED <<commonVars, simpleVars, factoryVars, builderVars>>
    /\ UNCHANGED <<wd, wdErr, invocations, closedSeen>>

\* Session loop, chErr <- err, then the next iteration of the for loop.
SessionSend ==
    /\ ~panicked
    /\ sl = "send"
    /\ CanSend(chErr)
    /\ chErr' = Sent(chErr, slErr)
    /\ errSent' = [errSent EXCEPT ![slErr] = @ + 1]
    /\ sl' = "invoke"
    /\ slErr' = NoErr
    /\ UNCHANGED <<ctlVars, ctxDone, cg, ms, chMsg>>
    /\ UNCHANGED <<wd, wdErr, invocations, closedSeen, sess, assigned, h,
                   hOff, hErr, next, claimStart, claimLog>>
    /\ UNCHANGED <<simpleVars, factoryVars, builderVars>>

\* ----------------------------------------------------------- simple consumer
\* consumer.Consume / consume / consumer.partitions of the simple consumer.
\* newOk: sarama.NewConsumer succeeds; partsOk: c.ms.Partitions succeeds;
\* n: number of partitions found; failAt: the ConsumePartition call that
\* fails (0: none).
SimpleConsume(newOk, partsOk, n, failAt) ==
    /\ mode = "simple"
    /\ ~panicked
    /\ ~consumeRet.called
    /\ cnl' = TRUE
    /\ IF ~newOk
         THEN /\ consumeRet' = [called |-> TRUE, queues |-> FALSE, err |-> TRUE]
              /\ UNCHANGED <<ms, reader, pump>>
         ELSE IF ~partsOk
         THEN /\ ms' = "open"
              /\ consumeRet' = [called |-> TRUE, queues |-> FALSE, err |-> TRUE]
              /\ UNCHANGED <<reader, pump>>
         ELSE IF failAt > 0
         THEN /\ ms' = "open"
              /\ reader' = [p \in Partitions |-> IF p < failAt THEN "open" ELSE "nil"]
              /\ consumeRet' = [called |-> TRUE, queues |-> FALSE, err |-> TRUE]
              /\ UNCHANGED pump
         ELSE IF n = 0
         THEN /\ ms' = "open"
              /\ consumeRet' = [called |-> TRUE, queues |-> FALSE, err |-> TRUE]
              /\ UNCHANGED <<reader, pump>>
         ELSE /\ ms' = "open"
              /\ reader' = [p \in Partitions |-> IF p <= n THEN "open" ELSE "nil"]
              /\ pump' = [p \in Partitions |-> IF p <= n THEN "select" ELSE "none"]
              /\ consumeRet' = [called |-> TRUE, queues |-> TRUE, err |-> FALSE]
    /\ UNCHANGED <<mode, buffer, chClosed, gauge, closeCalls, closeErr, panicked, receiving>>
    /\ UNCHANGED <<ctxDone, cg, chMsg, errVars>>
    /\ UNCHANGED <<pos, sentMsg, emit>>
    /\ UNCHANGED <<groupVars, factoryVars, builderVars>>

\* A Close that closes the partition readers itself.
SimpleCloseClosesReaders ==
    /\ mode = "simple"
    /\ ~panicked
    /\ closeCalls < MaxClose
    /\ closeCalls' = closeCalls + 1
    /\ ctxDone' = (ctxDone \/ cnl)
    /\ closeErr' = FALSE
    /\ reader' = [p \in Partitions |-> IF reader[p] = "nil" THEN "nil" ELSE "closed"]
    /\ UNCHANGED <<mode, buffer, chClosed, gauge, cnl, consumeRet, panicked, receiving>>
    /\ UNCHANGED <<cg, ms, chMsg, errVars>>
    /\ UNCHANGED <<pump, pos, sentMsg, emit>>
    /\ UNCHANGED <<groupVars, factoryVars, builderVars>>

\* consumer.Close of the simple consumer: cancels and returns nil.
SimpleClose ==
    /\ mode = "simple"
    /\ ~panicked
    /\ closeCalls < MaxClose
    /\ closeCalls' = closeCalls + 1
    /\ ctxDone' = (ctxDone \/ cnl)
    /\ closeErr' = FALSE
    /\ UNCHANGED <<mode, buffer, chClosed, gauge, cnl, consumeRet, panicked, receiving>>
    /\ UNCHANGED <<cg, ms, chMsg, errVars>>
    /\ UNCHANGED <<groupVars, simpleVars, factoryVars, builderVars>>

\* closePartitionConsumer(cns): closes a non-nil partition consumer.
closePartitionConsumer(cns) == IF cns = "nil" THEN cns ELSE "closed"

\* A pump that closes the consumer's client along with its own reader.
PumpCancelClosesClient(p) ==
    /\ ~panicked
    /\ pump[p] = "select"
    /\ ctxDone
    /\ reader' = [reader EXCEPT ![p] = closePartitionConsumer(@)]
    /\ ms' = "closed"
    /\ pump' = [pump EXCEPT ![p] = "done"]
    /\ UNCHANGED <<ctlVars, ctxDone, cg, chMsg, errVars>>
    /\ UNCHANGED <<groupVars, factoryVars, builderVars>>
    /\ UNCHANGED <<pos, sentMsg, emit>>

\* Partition pump, case <-ctx.Done().
PumpCancel(p) ==
    /\ ~panicked
    /\ pump[p] = "select"
    /\ ctxDone
    /\ reader' = [reader EXCEPT ![p] = closePartitionConsumer(@)]
    /\ pump' = [pump EXCEPT ![p] = "done"]
    /\ UNCHANGED <<commonVars, groupVars, factoryVars, builderVars>>
    /\ UNCHANGED <<pos, sentMsg, emit>>

\* A pump that closes every partition reader when its own reader fails.
PumpErrorClosesAll(p) ==
    /\ ~panicked
    /\ pump[p] = "select"
    /\ reader' = [q \in Partitions |-> closePartitionConsumer(reader[q])]
    /\ pump' = [pump EXCEPT ![p] = "send"]
    /\ UNCHANGED <<commonVars, groupVars, factoryVars, builderVars>>
    /\ UNCHANGED <<pos, sentMsg, emit>>

\* Partition pump, case consumerError := <-consumer.Errors(): the reader is
\* closed first, the send on chErr follows.
PumpError(p) ==
    /\ ~panicked
    /\ pump[p] = "select"
    /\ reader' = [reader EXCEPT ![p] = closePartitionConsumer(@)]
    /\ pump' = [pump EXCEPT ![p] = "send"]
    /\ UNCHANGED <<commonVars, groupVars, factoryVars, builderVars>>
    /\ UNCHANGED <<pos, sentMsg, emit>>

\* Partition pump, chErr <- consumerError; return.
PumpSend(p) ==
    /\ ~panicked
    /\ pump[p] = "send"
    /\ CanSend(chErr)
    /\ chErr' = Sent(chErr, ErrReader(p))
    /\ errSent' = [errSent EXCEPT ![ErrReader(p)] = @ + 1]
    /\ pump' = [pump EXCEPT ![p] = "done"]
    /\ UNCHANGED <<ctlVars, ctxDone, cg, ms, chMsg>>
    /\ UNCHANGED <<groupVars, factoryVars, builderVars>>
    /\ UNCHANGED <<reader, pos, sentMsg, emit>>

\* A pump that hands the record to the decoder without setting the gauge.
PumpMessageNoGauge(p, decodeOk) ==
    /\ ~panicked
    /\ pump[p] = "select"
    /\ pos[p] < MaxRecords
    /\ emit' = [emit EXCEPT ![<<p, pos[p]>>] = IF decodeOk THEN "sendMsg" ELSE "sendErr"]
    /\ pos' = [pos EXCEPT ![p] = @ + 1]
    /\ UNCHANGED <<mode, buffer, chClosed, gauge, cnl, consumeRet, closeCalls, closeErr,
                   panicked, receiving>>
    /\ UNCHANGED <<ctxDone, cg, ms, chMsg, errVars>>
    /\ UNCHANGED <<groupVars, factoryVars, builderVars>>
    /\ UNCHANGED <<pump, reader, sentMsg>>

\* Partition pump, case m := <-consumer.Messages(): the gauge is set from the
\* reader's high-water mark and the record's offset, then the record is handed
\* to a new decode-and-emit goroutine and the pump selects again. The goroutine
\* first runs kafka.ClaimMessage on the record: decodeOk is what the decoder
\* makes of the record's payload, which decides the send the goroutine does.
PumpMessage(p, decodeOk) ==
    /\ ~panicked
    /\ pump[p] = "select"
    /\ pos[p] < MaxRecords
    /\ gauge' = [gauge EXCEPT ![p] =
                    TopicPartitionOffsetDiffGaugeSet(HighWaterMarkOffset(p), pos[p])]
    /\ emit' = [emit EXCEPT ![<<p, pos[p]>>] = IF decodeOk THEN "sendMsg" ELSE "sendErr"]
    /\ pos' = [pos EXCEPT ![p] = @ + 1]
    /\ UNCHANGED <<mode, buffer, chClosed, cnl, consumeRet, closeCalls, closeErr,
                   panicked, receiving>>
    /\ UNCHANGED <<ctxDone, cg, ms, chMsg, errVars>>
    /\ UNCHANGED <<groupVars, factoryVars, builderVars>>
    /\ UNCHANGED <<pump, reader, sentMsg>>

\* A goroutine that gives the message up when the channel cannot take it.
EmitSendMsgOrDrop(p, o) ==
    /\ ~panicked
    /\ emit[<<p, o>>] = "sendMsg"
    /\ IF CanSend(chMsg)
         THEN /\ chMsg' = Sent(chMsg, <<p, o>>)
              /\ sentMsg' = [sentMsg EXCEPT ![<<p, o>>] = @ + 1]
         ELSE UNCHANGED <<chMsg, sentMsg>>
    /\ emit' = [emit EXCEPT ![<<p, o>>] = "done"]
    /\ UNCHANGED <<ctlVars, ctxDone, cg, ms, errVars>>
    /\ UNCHANGED <<groupVars, factoryVars, builderVars>>
    /\ UNCHANGED <<pump, reader, pos>>

\* Decode-and-emit goroutine, chMsg <- msg.
EmitSendMsg(p, o) ==
    /\ ~panicked
    /\ emit[<<p, o>>] = "sendMsg"
    /\ CanSend(chMsg)
    /\ chMsg' = Sent(chMsg, <<p, o>>)
    /\ sentMsg' = [sentMsg EXCEPT ![<<p, o>>] = @ + 1]
    /\ emit' = [emit EXCEPT ![<<p, o>>] = "done"]
    /\ UNCHANGED <<ctlVars, ctxDone, cg, ms, errVars>>
    /\ UNCHANGED <<groupVars, factoryVars, builderVars>>
    /\ UNCHANGED <<pump, reader, pos>>

\* A goroutine that lacks the return after chErr <- err and goes on to send
\* the message too.
EmitSendErrNoReturn(p, o) ==
    /\ ~panicked
    /\ emit[<<p, o>>] = "sendErr"
    /\ CanSend(chErr)
    /\ chErr' = Sent(chErr, ErrDecode(p, o))
    /\ errSent' = [errSent EXCEPT ![ErrDecode(p, o)] = @ + 1]
    /\ emit' = [emit EXCEPT ![<<p, o>>] = "sendMsg"]
    /\ UNCHANGED <<ctlVars, ctxDone, cg, ms, chMsg>>
    /\ UNCHANGED <<groupVars, factoryVars, builderVars>>
    /\ UNCHANGED <<pump, reader, pos, sentMsg>>

\* Decode-and-emit goroutine, chErr <- err; return.
EmitSendErr(p, o) ==
    /\ ~panicked
    /\ emit[<<p, o>>] = "sendErr"
    /\ CanSend(chErr)
    /\ chErr' = Sent(chErr, ErrDecode(p, o))
    /\ errSent' = [errSent EXCEPT ![ErrDecode(p, o)] = @ + 1]
    /\ emit' = [emit EXCEPT ![<<p, o>>] = "done"]
    /\ UNCHANGED <<ctlVars, ctxDone, cg, ms, chMsg>>
    /\ UNCHANGED <<groupVars, factoryVars, builderVars>>
    /\ UNCHANGED <<pump, reader, pos, sentMsg>>

\* ------------------------------------------------------------------ caller
\* The parent context handed to Consume is cancelled.
Cancel ==
    /\ ~panicked
    /\ cnl
    /\ ~ctxDone
    /\ ctxDone' = TRUE
    /\ UNCHANGED <<ctlVars, cg, ms, chMsg, errVars>>
    /\ UNCHANGED <<groupVars, simpleVars, factoryVars, builderVars>>

\* The caller receives from the message channel.
RecvMsg ==
    /\ ~panicked
    /\ receiving
    /\ chMsg # <<>>
    /\ chMsg' = Tail(chMsg)
    /\ UNCHANGED <<ctlVars, ctxDone, cg, ms, errVars>>
    /\ UNCHANGED <<groupVars, simpleVars, factoryVars, builderVars>>

\* The caller receives from the error channel.
RecvErr ==
    /\ ~panicked
    /\ receiving
    /\ chErr # <<>>
    /\ chErr' = Tail(chErr)
    /\ UNCHANGED <<ctlVars, ctxDone, cg, ms, chMsg, errSent>>
    /\ UNCHANGED <<groupVars, simpleVars, factoryVars, builderVars>>

\* The caller stops receiving from both channels.
StopReceiving ==
    /\ ~panicked
    /\ consumeRet.queues
    /\ receiving
    /\ receiving' = FALSE
    /\ UNCHANGED <<mode, buffer, chClosed, gauge, cnl, consumeRet, closeCalls, closeErr, panicked>>
    /\ UNCHANGED <<ctxDone, cg, ms, chMsg, errVars>>
    /\ UNCHANGED <<groupVars, simpleVars, factoryVars, builderVars>>

\* ---------------------------------------------------------- specifications
GroupNext ==
    \/ \E newOk \in BOOLEAN : GroupConsume(newOk)
    \/ \E closeFails \in BOOLEAN : GroupClose(closeFails)
    \/ WatchdogCancel
    \/ WatchdogError
    \/ WatchdogSend
    \/ \E joinOk \in BOOLEAN, asg \in SUBSET Partitions :
         \E start \in [Partitions -> Records] : SessionInvoke(joinOk, asg, start)
    \/ SessionRevoke
    \/ \E p \in Partitions, decodeOk \in BOOLEAN : ConsumeClaimTake(p, decodeOk)
    \/ \E p \in Partitions : ConsumeClaimSend(p)
    \/ \E p \in Partitions : ConsumeClaimEnd(p)
    \/ \E e \in {NoErr, ErrSession} \cup {hErr[p] : p \in Partitions} : SessionReturn(e)
    \/ SessionSend

SimpleNext ==
    \/ \E newOk \in BOOLEAN, partsOk \in BOOLEAN, n \in 0..NumPartitions :
         \E failAt \in 0..n : SimpleConsume(newOk, partsOk, n, failAt)
    \/ SimpleClose
    \/ \E p \in Partitions : PumpCancel(p)
    \/ \E p \in Partitions : PumpError(p)
    \/ \E p \in Partitions : PumpSend(p)
    \/ \E p \in Partitions, decodeOk \in BOOLEAN : PumpMessage(p, decodeOk)
    \/ \E p \in Partitions, o \in Records : EmitSendMsg(p, o)
    \/ \E p \in Partitions, o \in Records : EmitSendErr(p, o)

CallerNext ==
    \/ Cancel
    \/ RecvMsg
    \/ RecvErr
    \/ StopReceiving

InitGroup ==
    /\ mode = "group"
    /\ buffer \in 0..MaxBuffer
    /\ InitCommon
    /\ InitGroupVars
    /\ InitSimpleVars
    /\ InitFactoryVars
    /\ InitBuilderVars

InitSimple ==
    /\ mode = "simple"
    /\ buffer \in 0..MaxBuffer
    /\ InitCommon
    /\ InitGroupVars
    /\ InitSimpleVars
    /\ InitFactoryVars
    /\ InitBuilderVars

Init == InitGroup \/ InitSimple

Next == GroupNext \/ SimpleNext \/ CallerNext

Spec == Init /\ [][Next]_vars

SpecGroup == InitGroup /\ [][GroupNext \/ CallerNext]_vars

SpecSimple == InitSimple /\ [][SimpleNext \/ CallerNext]_vars

\* The Go scheduler runs every goroutine that can take a step: a pump whose
\* context is cancelled, a goroutine whose channel send can proceed. A caller
\* that is receiving takes what the channels hold. Whether records or reader
\* errors arrive is up to the broker.
FairSimple ==
    /\ SpecSimple
    /\ \A p \in Partitions : WF_vars(PumpCancel(p)) /\ WF_vars(PumpSend(p))
    /\ \A p \in Partitions, o \in Records :
          WF_vars(EmitSendMsg(p, o)) /\ WF_vars(EmitSendErr(p, o))
    /\ WF_vars(RecvMsg)
    /\ WF_vars(RecvErr)

InitFactory ==
    /\ mode = "factory"
    /\ buffer = 0
    /\ InitCommon
    /\ InitGroupVars
    /\ InitSimpleVars
    /\ fin \in [pkg : Packages, name : Names, group : Names, topic : Names,
                brokers : BrokerLists, oo : OptionLists]
    /\ factory = NoFactory
    /\ created = NoCreate
    /\ InitBuilderVars

FactoryNext ==
    \/ New
    \/ \E cfgOk \in BOOLEAN : Create(cfgOk)

SpecFactory == InitFactory /\ [][FactoryNext]_vars

\* ---------------------------------------------------------- service builder
\* The argument lists and functions a builder method can be given.
Lists == {<<>>, <<"x">>}
Funcs == {"nil", "fn"}

\* A WithRoutes that starts the error list afresh.
WithRoutesResetsErrors(rr) ==
    /\ mode = "builder"
    /\ b.made
    /\ ~run.called
    /\ Len(calls) < MaxCalls
    /\ b' = [b EXCEPT !.errors = IF Len(rr) = 0 THEN <<"routes are empty">> ELSE <<>>,
                      !.routes = rr]
    /\ calls' = Append(calls, <<"WithRoutes", Len(rr) = 0>>)
    /\ UNCHANGED <<commonVars, groupVars, simpleVars, factoryVars, run>>

\* patron.New(name, version): setupOk and traceOk are the outcomes of Setup
\* and setupDefaultTracing.
BuilderNew(name, setupOk, traceOk) ==
    /\ mode = "builder"
    /\ ~b.made
    /\ b' = IF name = ""
              THEN [ZeroBuilder EXCEPT !.made = TRUE, !.errors = <<"name is required">>]
              ELSE [ZeroBuilder EXCEPT
                      !.made = TRUE,
                      !.name = name,
                      !.healthCheck = "default",
                      !.errors = (IF setupOk THEN <<>> ELSE <<"setup">>)
                                     \o (IF traceOk THEN <<>> ELSE <<"tracing">>)]
    /\ calls' = Append(calls, <<"New", name = "">>)
    /\ UNCHANGED <<commonVars, groupVars, simpleVars, factoryVars, run>>

\* Builder.WithRoutes(rr...).
WithRoutes(rr) ==
    /\ mode = "builder"
    /\ b.made
    /\ ~run.called
    /\ Len(calls) < MaxCalls
    /\ b' = [b EXCEPT !.errors = IF Len(rr) = 0 THEN Append(@, "routes are empty") ELSE @,
                      !.routes = rr]
    /\ calls' = Append(calls, <<"WithRoutes", Len(rr) = 0>>)
    /\ UNCHANGED <<commonVars, groupVars, simpleVars, factoryVars, run>>

\* Builder.WithMiddlewares(mm...).
WithMiddlewares(mm) ==
    /\ mode = "builder"
    /\ b.made
    /\ ~run.called
    /\ Len(calls) < MaxCalls
    /\ b' = [b EXCEPT !.errors = IF Len(mm) = 0 THEN Append(@, "middlewares are empty")
                                                ELSE @,
                      !.middlewares = mm]
    /\ calls' = Append(calls, <<"WithMiddlewares", Len(mm) = 0>>)
    /\ UNCHANGED <<commonVars, groupVars, simpleVars, factoryVars, run>>

\* Builder.WithHealthCheck(hcf).
WithHealthCheck(hcf) ==
    /\ mode = "builder"
    /\ b.made
    /\ ~run.called
    /\ Len(calls) < MaxCalls
    /\ b' = [b EXCEPT !.errors = IF hcf = "nil"
                                   THEN Append(@, "health check function is nil")
                                   ELSE @,
                      !.healthCheck = hcf]
    /\ calls' = Append(calls, <<"WithHealthCheck", hcf = "nil">>)
    /\ UNCHANGED <<commonVars, groupVars, simpleVars, factoryVars, run>>

\* Builder.WithComponents(cc...).
WithComponents(cc) ==
    /\ mode = "builder"
    /\ b.made
    /\ ~run.called
    /\ Len(calls) < MaxCalls
    /\ b' = [b EXCEPT !.errors = IF Len(cc) = 0 THEN Append(@, "components are empty")
                                                ELSE @,
                      !.components = cc]
    /\ calls' = Append(calls, <<"WithComponents", Len(cc) = 0>>)
    /\ UNCHANGED <<commonVars, groupVars, simpleVars, factoryVars, run>>

\* Builder.WithDocs(file): importOk is the outcome of info.ImportDoc.
WithDocs(importOk) ==
    /\ mode = "builder"
    /\ b.made
    /\ ~run.called
    /\ Len(calls) < MaxCalls
    /\ b' = [b EXCEPT !.errors = IF importOk THEN @
                                   ELSE Append(@, "failed to import doc file")]
    /\ calls' = Append(calls, <<"WithDocs", FALSE>>)
    /\ UNCHANGED <<commonVars, groupVars, simpleVars, factoryVars, run>>

\* Builder.WithSIGHUP(handler).
WithSIGHUP(handler) ==
    /\ mode = "builder"
    /\ b.made
    /\ ~run.called
    /\ Len(calls) < MaxCalls
    /\ b' = [b EXCEPT !.errors = IF handler = "nil" THEN Append(@, "sighub handler is nil")
                                                    ELSE @,
                      !.sighupHandler = handler]
    /\ calls' = Append(calls, <<"WithSIGHUP", handler = "nil">>)
    /\ UNCHANGED <<commonVars, groupVars, simpleVars, factoryVars, run>>

\* Builder.Run: with recorded errors it returns their aggregate at once;
\* otherwise it creates the HTTP component (httpOk), the service (newOk) and
\* runs the components (runOk).
Run(httpOk, newOk, runOk) ==
    /\ mode = "builder"
    /\ b.made
    /\ ~run.called
    /\ IF Len(b.errors) > 0
         THEN /\ run' = [called |-> TRUE, err |-> TRUE, created |-> FALSE, ran |-> FALSE]
              /\ UNCHANGED b
         ELSE IF ~httpOk
         THEN /\ run' = [called |-> TRUE, err |-> TRUE, created |-> FALSE, ran |-> FALSE]
              /\ UNCHANGED b
         ELSE /\ b' = [b EXCEPT !.components = Append(@, "http")]
              /\ run' = [called |-> TRUE, err |-> ~newOk \/ ~runOk, created |-> TRUE,
                         ran |-> newOk]
    /\ UNCHANGED <<commonVars, groupVars, simpleVars, factoryVars, calls>>

InitBuilder ==
    /\ mode = "builder"
    /\ buffer = 0
    /\ InitCommon
    /\ InitGroupVars
    /\ InitSimpleVars
    /\ InitFactoryVars
    /\ InitBuilderVars

BuilderNext ==
    \/ \E name \in Names, setupOk \in BOOLEAN, traceOk \in BOOLEAN :
         BuilderNew(name, setupOk, traceOk)
    \/ \E rr \in Lists : WithRoutes(rr)
    \/ \E mm \in Lists : WithMiddlewares(mm)
    \/ \E hcf \in Funcs : WithHealthCheck(hcf)
    \/ \E cc \in Lists : WithComponents(cc)
    \/ \E importOk \in BOOLEAN : WithDocs(importOk)
    \/ \E handler \in Funcs : WithSIGHUP(handler)
    \/ \E httpOk \in BOOLEAN, newOk \in BOOLEAN, runOk \in BOOLEAN :
         Run(httpOk, newOk, runOk)

SpecBuilder == InitBuilder /\ [][BuilderNext]_vars

\* ------------------------------------------------------------------ claims
\* C1: Close never panics, and a repeated Close returns no error, in either
\* mode, whether or not Consume has run before it.
C1_CloseNeverPanics ==
    /\ ~panicked
    /\ closeCalls >= 2 => ~closeErr

\* C2: group mode: once a session invocation has observed the closed client
\* the session loop has exited: it invokes no session and sends no error
\* any more.
C2_SessionLoopExits == closedSeen => sl = "done"

\* Every background task of the simple consumer has returned.
SimpleTasksDone ==
    /\ \A p \in Partitions : pump[p] \in {"none", "done"}
    /\ \A k \in EmitKeys : emit[k] \in {"none", "done"}

\* C3: simple mode: once the token is cancelled after Consume has returned,
\* every partition pump and every dispatched decode-and-emit task eventually
\* terminates, and a later Close returns without panicking.
C3_TasksTerminate ==
    /\ (ctxDone /\ consumeRet.queues) ~> SimpleTasksDone
    /\ [](mode = "simple" => ~panicked)

\* C4: group mode: within one claim the messages of a partition are sent on
\* the message channel in the order the claim yields its records, each
\* once and none left out: the offsets sent are claimStart, claimStart+1, ..
\* and, as long as no decode failed, they are all the records taken but the
\* one being sent.
C4_ClaimInOrder ==
    \A p \in assigned :
        /\ \A i \in 1..Len(claimLog[p]) : claimLog[p][i] = claimStart[p] + i - 1
        /\ hErr[p] = NoErr =>
             Len(claimLog[p]) + (IF h[p] = "send" THEN 1 ELSE 0) = next[p] - claimStart[p]

C4_Witness ==
    \E p \in assigned : claimStart[p] = 0 /\ Len(claimLog[p]) >= 2 /\ hErr[p] = NoErr

\* The message of record k has been received by the caller.
Delivered(k) ==
    /\ sentMsg[k] = 1
    /\ emit[k] = "done"
    /\ \A i \in 1..Len(chMsg) : chMsg[i] # k

\* C5: simple mode: every fetched record that decodes is sent on the message
\* channel once, never twice, and a caller that keeps receiving gets it.
C5_AllDelivered ==
    /\ [](\A k \in EmitKeys : sentMsg[k] <= 1 /\ (emit[k] = "sendMsg" => sentMsg[k] = 0))
    /\ \A k \in EmitKeys : (emit[k] = "sendMsg") ~> (~receiving \/ Delivered(k))

C5_Witness ==
    /\ receiving
    /\ ~ctxDone
    /\ \E p \in Partitions : \A o \in Records : Delivered(<<p, o>>)

\* No background task has been started.
NoTaskStarted ==
    /\ wd = "none"
    /\ sl = "none"
    /\ \A p \in Partitions : pump[p] = "none"
    /\ \A k \in EmitKeys : emit[k] = "none"

\* C6: a Consume that fails at setup (the client cannot be created, partition
\* enumeration fails, a partition reader cannot be opened, no partition is
\* found) returns an error and nil channels and has started no task.
C6_SetupFailure ==
    /\ consumeRet.err => ~consumeRet.queues /\ NoTaskStarted
    /\ consumeRet.called /\ ~consumeRet.err => consumeRet.queues
    /\ consumeRet.called /\ mode = "group" /\ cg = "nil" => consumeRet.err
    /\ consumeRet.called /\ mode = "simple"
         /\ (ms = "nil" \/ \A p \in Partitions : reader[p] = "nil") => consumeRet.err

C6_Witness ==
    /\ mode = "simple"
    /\ consumeRet.err
    /\ reader[1] = "open"

\* A session invocation returns in this step.
SessionReturned ==
    \/ sl = "session" /\ sl' # "session"
    \/ sl = "invoke" /\ invocations' > invocations /\ sl' # "session"

\* C7: group mode: every error a session invocation returns is sent on the
\* error channel, after which the session loop invokes the session again;
\* the loop never ends.
C7_ErrorsForwarded ==
    /\ [](sl # "done")
    /\ [][SessionReturned /\ slErr' # NoErr => sl' = "send"]_vars
    /\ [][sl = "send" /\ sl' # "send" =>
            sl' = "invoke" /\ errSent'[slErr] = errSent[slErr] + 1]_vars

C7_Witness ==
    /\ errSent[ErrSession] >= 1
    /\ sl = "session"
    /\ ~ctxDone
    /\ cg = "open"

\* C8: simple mode: a record whose decode fails puts one error on the error
\* channel and no message on the message channel, and leaves the pump that
\* fetched it as it is.
C8_DecodeFailure ==
    /\ [](\A k \in EmitKeys :
            /\ errSent[ErrDecode(k[1], k[2])] + sentMsg[k] <= 1
            /\ emit[k] = "sendErr" => errSent[ErrDecode(k[1], k[2])] = 0 /\ sentMsg[k] = 0)
    /\ [][\A k \in EmitKeys :
            emit[k] = "sendErr" /\ emit'[k] # "sendErr" =>
                /\ emit'[k] = "done"
                /\ errSent'[ErrDecode(k[1], k[2])] = 1
                /\ sentMsg'[k] = 0
                /\ pump' = pump
                /\ reader' = reader]_vars

C8_Witness ==
    \E p \in Partitions :
        /\ errSent[ErrDecode(p, 0)] = 1
        /\ sentMsg[<<p, 0>>] = 0
        /\ pump[p] = "select"
        /\ Delivered(<<p, 1>>)

\* A required argument of New is missing.
MissingField ==
    \/ fin.name = ""
    \/ fin.topic = ""
    \/ fin.brokers = <<>>
    \/ fin.pkg # "simple" /\ fin.group = ""

\* C9: New returns an error and no Factory when a required field is empty,
\* a Factory holding its arguments and no error otherwise; Create never runs
\* with a missing field.
C9_NewValidates ==
    /\ factory.called /\ MissingField => factory.f.nil /\ factory.err # ""
    /\ factory.called /\ ~MissingField =>
         /\ ~factory.f.nil
         /\ factory.err = ""
         /\ factory.f.name = fin.name
         /\ factory.f.topic = fin.topic
         /\ factory.f.brokers = fin.brokers
         /\ factory.f.oo = fin.oo
    /\ created.called => ~MissingField

C9_Witness ==
    /\ factory.called
    /\ factory.f.nil
    /\ fin.name # ""
    /\ fin.topic # ""
    /\ fin.group # ""
    /\ fin.brokers = <<>>

\* Index of the first option of oo that fails, 0 if none does.
FirstFailing(oo) ==
    IF \E i \in 1..Len(oo) : oo[i].fails
      THEN CHOOSE i \in 1..Len(oo) : oo[i].fails /\ \A j \in 1..(i - 1) : ~oo[j].fails
      ELSE 0

\* C10: Create applies the options in order and stops at the first that
\* fails, returning no consumer and a wrapped error that identifies the
\* option; with no failing option it returns a consumer with all applied.
C10_CreateWrapsOptionError ==
    created.called /\ created.err[1] # "config" =>
        LET oo == factory.f.oo
            i == FirstFailing(oo)
        IN  IF i = 0
              THEN /\ created.c
                   /\ created.err = NoErr
                   /\ created.applied = [j \in 1..Len(oo) |-> j]
              ELSE /\ ~created.c
                   /\ created.applied = [j \in 1..i |-> j]
                   /\ created.err[1] = "option"
                   /\ created.err[2] = 1
                   /\ created.err[3] = oo[i].fn

\* C11: in both modes, once Consume has succeeded and Close has been called,
\* the client handle the consumer opened (the coordination client c.cg of the
\* group consumer, the direct client c.ms of the simple consumer) is closed.
C11_CloseReleasesClient ==
    (consumeRet.queues /\ closeCalls >= 1 /\ ~panicked) =>
        /\ mode = "group" => cg = "closed"
        /\ mode = "simple" => ms = "closed"

\* C12: simple mode: once Consume has handed out the channels and no pump and
\* no decode-and-emit goroutine is left running, both channels are closed.
C12_QueuesClosed ==
    (mode = "simple" /\ consumeRet.queues /\ SimpleTasksDone) => chClosed

\* The builder calls made so far that lacked a required input.
MissingCalls == {i \in 1..Len(calls) : calls[i][2]}

\* C13: whatever builder calls are made, when one of them lacked a required
\* input (an empty name, an empty list of routes, middlewares or components,
\* a nil health check or SIGHUP handler) Run returns an error and neither
\* creates nor runs a component; every such call has left an error in the
\* builder's list, and no builder call or Run takes an error out of the list.
C13_MissingInputFailsRun ==
    /\ [](Cardinality(MissingCalls) <= Len(b.errors))
    /\ [](run.called /\ MissingCalls # {} =>
            run.err /\ ~run.created /\ ~run.ran /\ b.components \in Lists)
    /\ [][/\ Len(b.errors') >= Len(b.errors)
          /\ SubSeq(b.errors', 1, Len(b.errors)) = b.errors]_vars

C13_Witness ==
    /\ run.called
    /\ run.err
    /\ b.name # ""
    /\ Cardinality(MissingCalls) = 2
    /\ Len(b.errors) = 3

\* C14: group mode: the watchdog handles one event. Taking the cancellation
\* it closes the client and returns with nothing sent on the error channel;
\* taking a coordination error it closes the client, sends that one error on
\* the error channel and returns. Once returned it does nothing more.
C14_WatchdogActsOnce ==
    /\ [][wd = "select" /\ wd' # "select" =>
            /\ cg' = "closed"
            /\ errSent' = errSent
            /\ chErr' = chErr
            /\ \/ wd' = "done" /\ ctxDone /\ wdErr' = wdErr
               \/ wd' = "send" /\ wdErr' = ErrFatal]_vars
    /\ [][wd = "send" /\ wd' # "send" =>
            /\ wd' = "done"
            /\ errSent' = [errSent EXCEPT ![wdErr] = @ + 1]
            /\ buffer > 0 => chErr' = Append(chErr, wdErr)]_vars
    /\ [][wd = "done" => wd' = "done" /\ wdErr' = wdErr]_vars
    /\ [](errSent[ErrFatal] <= 1)
    /\ [](wd = "done" /\ wdErr = NoErr => errSent[ErrFatal] = 0)

C14_Witness ==
    /\ wd = "done"
    /\ wdErr = ErrFatal
    /\ errSent[ErrFatal] = 1
    /\ cg = "closed"
    /\ closeCalls = 0

\* C15 as stated: in both modes the client handle (c.cg, c.ms) goes to closed
\* only in a step of Close.
C15_ClientClosedOnlyByClose ==
    [][(cg # "closed" /\ cg' = "closed") \/ (ms # "closed" /\ ms' = "closed") =>
          closeCalls' = closeCalls + 1]_vars

\* C15, amended: the coordination client of the group consumer is closed only
\* by Close or by the watchdog leaving its select; the session loop and the
\* claim handlers never close it. The direct client of the simple consumer is
\* touched by Consume alone, which opens it: no pump and no decode-and-emit
\* goroutine closes it.
C15_ClientClosedByCloseOrWatchdog ==
    /\ [][cg # "closed" /\ cg' = "closed" =>
            \/ closeCalls' = closeCalls + 1
            \/ wd = "select" /\ wd' \in {"send", "done"}]_vars
    /\ [][ms' # ms => ~consumeRet.called /\ consumeRet'.called /\ ms' = "open"]_vars

C15_Witness ==
    /\ mode = "group"
    /\ cg = "closed"
    /\ closeCalls = 0
    /\ ctxDone
    /\ wd = "done"
    /\ errSent[ErrFatal] = 0

\* C16: group mode: a claim handler whose decode of the record at offset o
\* fails has returned with the error of that record in the same step; it has
\* sent the messages of the records before o and no other, and it takes and
\* sends nothing more of the claim. The failing step leaves the message
\* channel as it was.
C16_DecodeFailureEndsClaim ==
    /\ [](\A p \in Partitions :
            hErr[p] # NoErr =>
                /\ h[p] = "ret"
                /\ hErr[p] = ErrDecode(p, next[p] - 1)
                /\ claimLog[p] =
                     [i \in 1..(next[p] - 1 - claimStart[p]) |-> claimStart[p] + i - 1])
    /\ [][\A p \in Partitions :
            /\ hErr[p] = NoErr /\ hErr'[p] # NoErr =>
                 chMsg' = chMsg /\ claimLog' = claimLog /\ next'[p] = next[p] + 1
            /\ hErr[p] # NoErr /\ hErr'[p] # NoErr =>
                 claimLog'[p] = claimLog[p] /\ next'[p] = next[p] /\ hErr'[p] = hErr[p]]_vars

C16_Witness ==
    \E p \in assigned :
        /\ hErr[p] = ErrDecode(p, 1)
        /\ claimLog[p] = <<0>>
        /\ h[p] = "ret"

\* C17: group mode: neither channel ever holds more than the configured
\* buffer size. A claim handler that has decoded a message holds exactly that
\* one message until the channel accepts it: it has taken one record more
\* than it has sent, takes no further record while it waits, and its send
\* goes through only when the channel has a free slot (or, with a buffer of
\* zero, a receiving caller).
C17_GroupBackpressure ==
    /\ [](Len(chMsg) <= buffer /\ Len(chErr) <= buffer)
    /\ [](\A p \in Partitions :
            /\ h[p] = "send" =>
                 next[p] - claimStart[p] = Len(claimLog[p]) + 1 /\ hOff[p] = next[p] - 1
            /\ h[p] = "range" /\ hErr[p] = NoErr =>
                 next[p] - claimStart[p] = Len(claimLog[p]))
    /\ [][\A p \in Partitions :
            /\ h[p] = "send" => next'[p] = next[p] \/ h'[p] = "idle"
            /\ h[p] = "send" /\ h'[p] = "range" =>
                 /\ claimLog'[p] = Append(claimLog[p], hOff[p])
                 /\ IF buffer = 0
                      THEN receiving /\ chMsg' = chMsg
                      ELSE Len(chMsg) < buffer /\ chMsg' = Append(chMsg, <<p, hOff[p]>>)]_vars

C17_Witness ==
    /\ buffer = 1
    /\ Len(chMsg) = 1
    /\ \E p \in assigned : h[p] = "send" /\ chMsg[1][1] = p

\* C18: simple mode: a pump that takes an error of its partition reader
\* closes that reader and no other, sends the error on the error channel and
\* returns; the step changes nothing of any other pump, of the context or of
\* the records in flight. Whether or not the error has been sent yet, every
\* other pump still selecting has its reader open and can take its next
\* record.
C18_ReaderErrorIsolated ==
    /\ [][\A p \in Partitions :
            pump[p] = "select" /\ pump'[p] = "send" =>
                /\ reader'[p] = "closed"
                /\ \A q \in Partitions \ {p} : pump'[q] = pump[q] /\ reader'[q] = reader[q]
                /\ ctxDone' = ctxDone
                /\ pos' = pos /\ emit' = emit
                /\ chMsg' = chMsg /\ chErr' = chErr /\ errSent' = errSent]_vars
    /\ [][\A p \in Partitions :
            pump[p] = "send" /\ pump'[p] # "send" =>
                /\ pump'[p] = "done"
                /\ errSent' = [errSent EXCEPT ![ErrReader(p)] = @ + 1]
                /\ reader' = reader
                /\ \A q \in Partitions \ {p} : pump'[q] = pump[q]]_vars
    /\ [](\A p \in Partitions : pump[p] = "select" => reader[p] = "open")
    /\ [](\A p \in Partitions, q \in Partitions :
            (p # q /\ pump[p] \in {"send", "done"} /\ pump[q] = "select"
                /\ pos[q] < MaxRecords /\ ~panicked)
                => ENABLED PumpMessage(q, TRUE))

C18_Witness ==
    \E p \in Partitions, q \in Partitions :
        /\ p # q
        /\ ~ctxDone
        /\ pump[p] = "send"
        /\ reader[p] = "closed"
        /\ errSent[ErrReader(p)] = 0
        /\ pump[q] = "select"
        /\ reader[q] = "open"
        /\ \A o \in Records : Delivered(<<q, o>>)

\* C19: in both modes the step that takes the record at offset o of a
\* partition, and hands it to the decoder, sets the gauge of the partition to
\* the high-water mark read in that step minus o; the gauge changes in no
\* other step. So every record that is decoded, sent or failed has had its
\* gauge update: a handler holding the message or the decode error of offset
\* o, and a partition whose newest decode-and-emit goroutine is that of
\* offset o, shows the gauge at high-water mark minus o.
C19_GaugeBeforeDecode ==
    /\ [][\A p \in Partitions :
            /\ h[p] = "range" /\ next'[p] # next[p] =>
                 gauge'[p] = HighWaterMarkOffset(p) - next[p]
            /\ pos'[p] # pos[p] => gauge'[p] = HighWaterMarkOffset(p) - pos[p]
            /\ gauge'[p] # gauge[p] =>
                 \/ h[p] = "range" /\ next'[p] = next[p] + 1
                 \/ pos'[p] = pos[p] + 1]_vars
    /\ [](\A p \in Partitions :
            /\ h[p] = "send" => gauge[p] = HighWaterMarkOffset(p) - hOff[p]
            /\ hErr[p] # NoErr => gauge[p] = HighWaterMarkOffset(p) - hErr[p][3]
            /\ \A o \in Records :
                 emit[<<p, o>>] # "none" /\ pos[p] = o + 1 =>
                     gauge[p] = HighWaterMarkOffset(p) - o)

C19_Witness ==
    \E p \in Partitions :
        /\ mode = "group"
        /\ h[p] = "send"
        /\ hOff[p] = 1
        /\ claimLog[p] = <<0>>
        /\ gauge[p] = 1

\* C20: simple mode: Close cancels the context Consume derived, returns nil
\* and leaves every partition reader, every pump and the client as they are.
\* A reader goes to closed only in the step in which its own pump leaves the
\* select, and stays closed; that pump has then left the select for good and
\* reads no further record.
C20_SimpleCloseOnlyCancels ==
    /\ [][closeCalls' # closeCalls =>
            /\ cnl => ctxDone'
            /\ ~closeErr' /\ ~panicked'
            /\ reader' = reader /\ pump' = pump /\ ms' = ms /\ pos' = pos]_vars
    /\ [][\A p \in Partitions :
            /\ reader[p] # "closed" /\ reader'[p] = "closed" =>
                 /\ reader[p] = "open"
                 /\ pump[p] = "select" /\ pump'[p] \in {"send", "done"}
                 /\ \A q \in Partitions : q # p => reader'[q] = reader[q]
            /\ reader[p] = "closed" =>
                 /\ reader'[p] = "closed"
                 /\ pump'[p] \in {"send", "done"}
                 /\ pos'[p] = pos[p]]_vars
    /\ [](\A p \in Partitions : reader[p] = "closed" => pump[p] \in {"send", "done"})

C20_Witness ==
    \E p \in Partitions, q \in Partitions :
        /\ closeCalls >= 1
        /\ ~closeErr
        /\ reader[p] = "closed" /\ pump[p] = "done" /\ pos[p] = 1
        /\ errSent[ErrReader(p)] = 0
        /\ reader[q] = "open" /\ pump[q] = "select"

\* C21: simple mode: when Consume has returned an error, nothing it opened
\* is left open: neither the client c.ms nor any partition reader.
C21_FailedConsumeReleasesAll ==
    (mode = "simple" /\ consumeRet.err) =>
        /\ ms # "open"
        /\ \A p \in Partitions : reader[p] # "open"

\* C22: simple mode: once the context is cancelled and every partition pump
\* has returned, no step sends a message on the message channel or an error
\* on the error channel.
C22_NoSendAfterPumpsStop ==
    [][(/\ mode = "simple"
        /\ consumeRet.queues
        /\ ctxDone
        /\ \A p \in Partitions : pump[p] \in {"none", "done"}) =>
           sentMsg' = sentMsg /\ errSent' = errSent]_vars

====
